---- MODULE Spec2Model ----
(***************************************************************************)
(* A model of main.py: the command-line pipeline that resolves an input    *)
(* media file, optionally extracts one audio track with FFmpeg into a      *)
(* temporary directory, transcribes it with Whisper and writes             *)
(* {outdir}/{stem}_transcript.txt.                                         *)
(*                                                                         *)
(* A directory is a sequence of path components, a file name a sequence of *)
(* characters, a path a record [dir, name].  Text is a sequence of         *)
(* characters.  An absent optional string (argparse default None) is the   *)
(* empty sequence <<>>, a given one is the one-element sequence <<s>>.     *)
(***************************************************************************)
EXTENDS Integers, Sequences, FiniteSets, TLC

VARIABLES
    args,               \* argparse namespace: input, audio_track, outdir, device
    cuda_available,     \* environment: what torch.cuda.is_available() answers
    pc,                 \* position of main()
    src_path,           \* main.py:64
    device,             \* main.py:76
    media_for_whisper,  \* main.py:79
    tmp_to_cleanup,     \* main.py:80
    tmpdir,             \* main.py:40, the directory mkdtemp made in this run
    engine_input,       \* the path handed to model.transcribe, main.py:96
    result,             \* main.py:95
    outdir,             \* main.py:103
    out_txt,            \* main.py:105
    files,              \* file system: path -> content of the files written
    dirs,               \* file system: the directories that exist
    exit,               \* how the process ended: status, kind, reason
    trace,              \* the externally visible steps of the run, in order
    writes              \* log of the transcript writes: path, prior, data

vars == <<args, cuda_available, pc, src_path, device, media_for_whisper,
          tmp_to_cleanup, tmpdir, engine_input, result, outdir, out_txt,
          files, dirs, exit, trace, writes>>

-----------------------------------------------------------------------------
(* Bounds *)

MaxLen == 3
MaxTrack == 1
MaxWrites == 2

-----------------------------------------------------------------------------
(* Text *)

Chars == {"a", " ", "\n"}
Whitespace == {" ", "\n"}

SeqsUpTo(S, n) == UNION {[1..k -> S] : k \in 0..n}

Texts == SeqsUpTo(Chars, MaxLen)

\* The dictionary model.transcribe returns: the "text" key may be missing.
Results ==
    {[has_text |-> TRUE, text |-> t] : t \in Texts}
        \cup {[has_text |-> FALSE, text |-> <<>>]}

NoResult == [has_text |-> FALSE, text |-> <<>>]

\* dict.get("text", "")
ResultGetText(r) == IF r.has_text THEN r.text ELSE <<>>

RECURSIVE lstrip(_)
lstrip(s) ==
    IF s # <<>> /\ Head(s) \in Whitespace THEN lstrip(Tail(s)) ELSE s

RECURSIVE rstrip(_)
rstrip(s) ==
    IF s # <<>> /\ s[Len(s)] \in Whitespace
    THEN rstrip(SubSeq(s, 1, Len(s) - 1))
    ELSE s

\* str.strip()
strip(s) == rstrip(lstrip(s))

\* str.endswith for a one-character suffix
endswith(s, c) == s # <<>> /\ s[Len(s)] = c

\* The text kept as read, with a newline always appended.
TranscriptData_unstripped(r) == ResultGetText(r) \o <<"\n">>

\* main.py:108-110: what is handed to f.write
TranscriptData(r) ==
    LET text == strip(ResultGetText(r))
    IN  text \o (IF text # <<>> /\ ~endswith(text, "\n") THEN <<"\n">> ELSE <<>>)

-----------------------------------------------------------------------------
(* Paths *)

NoDir == <<>>
NoPath == [dir |-> <<>>, name |-> <<>>]
Home == <<"home">>

\* Path.expanduser(): a leading "~" component becomes the home directory
expanduser(d) == IF d # <<>> /\ d[1] = "~" THEN Home \o Tail(d) ELSE d

ExpandPath(p) == [dir |-> expanduser(p.dir), name |-> p.name]

RECURSIVE rfind(_, _, _)
\* str.rfind: the last index <= i holding c, 0 when there is none
rfind(s, c, i) ==
    IF i = 0 THEN 0 ELSE IF s[i] = c THEN i ELSE rfind(s, c, i - 1)

\* Path.stem: the name up to its last dot, unless that dot leads or ends it
stem(name) ==
    LET i == rfind(name, ".", Len(name))
    IN  IF 1 < i /\ i < Len(name) THEN SubSeq(name, 1, i - 1) ELSE name

TranscriptSuffix == <<"_transcript.txt">>

\* Truthiness of an optional string: None and "" are falsy
Truthy(opt) == opt # <<>> /\ opt[1] # ""

\* Truthiness of args.outdir: None and "" (no component) are falsy
OutdirGiven(o) == o.given /\ o.dir # <<>>

\* main.py:81, "is not None": the index 0 counts as supplied
TrackSupplied_truthy(t) == t.given /\ t.index # 0

TrackSupplied(t) == t.given

\* The transcript named after the file handed to the engine.
OutputFile_fromMedia(src, media, dir) ==
    [dir |-> dir, name |-> stem(media.name) \o TranscriptSuffix]

\* main.py:105
OutputFile(src, media, dir) ==
    [dir |-> dir, name |-> stem(src.name) \o TranscriptSuffix]

\* main.py:103
OutputDir(src, o) == IF OutdirGiven(o) THEN expanduser(o.dir) ELSE src.dir

\* The accelerator probe consulted before the override.
ChooseDevice_probeFirst(dev_arg, cuda) ==
    IF cuda THEN "cuda" ELSE IF Truthy(dev_arg) THEN dev_arg[1] ELSE "cpu"

\* main.py:76
ChooseDevice(dev_arg, cuda) ==
    IF Truthy(dev_arg) THEN dev_arg[1] ELSE IF cuda THEN "cuda" ELSE "cpu"

-----------------------------------------------------------------------------
(* File system *)

\* open(path, "a"): append to what is there.
OpenWrite_append(fs, p, data) ==
    [q \in DOMAIN fs \cup {p} |->
        IF q = p THEN (IF p \in DOMAIN fs THEN fs[p] ELSE <<>>) \o data
        ELSE fs[q]]

\* main.py:109-110: open(path, "w") truncates, then the data is written
OpenWrite(fs, p, data) ==
    [q \in DOMAIN fs \cup {p} |-> IF q = p THEN data ELSE fs[q]]

Prefixes(d) == {SubSeq(d, 1, k) : k \in 1..Len(d)}

\* main.py:104: mkdir(parents=True, exist_ok=True)
Mkdir(ds, d) == ds \cup Prefixes(d)

\* main.py:117: shutil.rmtree
RmtreeFiles(fs, d) == [q \in {p \in DOMAIN fs : p.dir # d} |-> fs[q]]

-----------------------------------------------------------------------------
(* Inputs and environment *)

ClipMkv == [dir |-> <<"m">>, name |-> <<"c", ".", "m">>]
TarGz == [dir |-> <<"home">>, name |-> <<"a", ".", "b", ".", "c">>]
Hidden == [dir |-> <<"m">>, name |-> <<".", "h">>]
Gone == [dir |-> <<"m">>, name |-> <<"g">>]

\* The media files that exist on disk
MediaFiles == {ClipMkv, TarGz, Hidden}

\* --input: absent (or ""), or a path as typed
InputArgs ==
    {NoPath, ClipMkv, [dir |-> <<"~">>, name |-> TarGz.name], Hidden, Gone}

\* What the file dialog can return: nothing, or a chosen file
PickerResults == {NoPath, ClipMkv}

NoTrack == [given |-> FALSE, index |-> 0]
TrackArgs == {NoTrack} \cup {[given |-> TRUE, index |-> i] : i \in 0..MaxTrack}

NoOutdir == [given |-> FALSE, dir |-> <<>>]
OutdirArgs ==
    {NoOutdir, [given |-> TRUE, dir |-> <<>>],
     [given |-> TRUE, dir |-> <<"~", "out">>]}

DeviceArgs == {<<>>, <<"">>, <<"cpu">>, <<"cuda">>}

ArgSets ==
    [input : InputArgs, audio_track : TrackArgs, outdir : OutdirArgs,
     device : DeviceArgs]

\* Where a transcript of src can land
CandidateOutputs(src) ==
    {OutputFile(src, src, OutputDir(src, o)) : o \in OutdirArgs}

AllCandidateOutputs == UNION {CandidateOutputs(m) : m \in MediaFiles}

\* Content a previous program may have left in an output file
OldData == <<"z", "z", "z", "z", "z", "z">>
OldTranscript == <<"a", "\n">>

\* The directories on disk at the start: those of the media, the temp area,
\* and those of the files already there
InitialDirs(fs) == {<<"m">>, <<"home">>, <<"tmp">>} \cup {p.dir : p \in DOMAIN fs}

\* tempfile.mkdtemp(prefix="whisper_"): a directory that did not exist
TmpDirName == <<"tmp", "whisper_x">>

StagedWav(d) == [dir |-> d, name |-> <<"audio_track", ".", "wav">>]

Running == [status |-> 0, kind |-> "running", reason |-> ""]

\* sys.exit(<message>): the message on stderr, status 1
SysExit(reason) == [status |-> 1, kind |-> "message", reason |-> reason]

\* an exception nobody catches: a traceback on stderr, status 1
Uncaught(reason) == [status |-> 1, kind |-> "traceback", reason |-> reason]

\* main() returns: status 0
Returned == [status |-> 0, kind |-> "returned", reason |-> ""]

exists(p) == p \in MediaFiles \/ p \in DOMAIN files

-----------------------------------------------------------------------------
(* extract_track_to_wav, main.py:35-51 *)

\* The temporary directory made before FFmpeg is looked up.
extract_track_to_wav_mkdtempFirst(src, track_index, ffmpeg_found, ffmpeg_status) ==
    IF ~ffmpeg_found
    THEN [outcome |-> "SystemExit", tmpdir |-> TmpDirName, wav |-> FALSE,
          events |-> <<"mkdtemp", "which">>]
    ELSE IF ffmpeg_status # 0
    THEN [outcome |-> "CalledProcessError", tmpdir |-> TmpDirName, wav |-> FALSE,
          events |-> <<"mkdtemp", "which", "ffmpeg">>]
    ELSE [outcome |-> "return", tmpdir |-> TmpDirName, wav |-> TRUE,
          events |-> <<"mkdtemp", "which", "ffmpeg">>]

\* ensure_ffmpeg (31-33), mkdtemp (40), subprocess.run(check=True) (50)
extract_track_to_wav(src, track_index, ffmpeg_found, ffmpeg_status) ==
    IF ~ffmpeg_found
    THEN [outcome |-> "SystemExit", tmpdir |-> NoDir, wav |-> FALSE,
          events |-> <<"which">>]
    ELSE IF ffmpeg_status # 0
    THEN [outcome |-> "CalledProcessError", tmpdir |-> TmpDirName, wav |-> FALSE,
          events |-> <<"which", "mkdtemp", "ffmpeg">>]
    ELSE [outcome |-> "return", tmpdir |-> TmpDirName, wav |-> TRUE,
          events |-> <<"which", "mkdtemp", "ffmpeg">>]

-----------------------------------------------------------------------------
(* main, main.py:53-119 *)

\* The directory released before the path is reported.
Successor_cleanupFirst(p) ==
    CASE p = "start" -> "import"
      [] p = "import" -> "device"
      [] p = "device" -> "prepare"
      [] p = "prepare" -> "load"
      [] p = "load" -> "transcribe"
      [] p = "transcribe" -> "outpath"
      [] p = "outpath" -> "save"
      [] p = "save" -> "cleanup"
      [] p = "cleanup" -> "report"
      [] p = "report" -> "done"

\* The order of the statements of main()
Successor(p) ==
    CASE p = "start" -> "import"
      [] p = "import" -> "device"
      [] p = "device" -> "prepare"
      [] p = "prepare" -> "load"
      [] p = "load" -> "transcribe"
      [] p = "transcribe" -> "outpath"
      [] p = "outpath" -> "save"
      [] p = "save" -> "report"
      [] p = "report" -> "cleanup"
      [] p = "cleanup" -> "done"

\* The process ends when main() returns or dies
Leave(p, how) == IF p = "done" THEN Returned ELSE how

Init ==
    /\ args \in ArgSets
    /\ cuda_available \in BOOLEAN
    /\ pc = "start"
    /\ src_path = NoPath
    /\ device = ""
    /\ media_for_whisper = NoPath
    /\ tmp_to_cleanup = NoDir
    /\ tmpdir = NoDir
    /\ engine_input = NoPath
    /\ result = NoResult
    /\ outdir = NoDir
    /\ out_txt = NoPath
    /\ files \in {<<>>} \cup {[p \in AllCandidateOutputs |-> OldData]}
    /\ dirs = InitialDirs(files)
    /\ exit = Running
    /\ trace = <<>>
    /\ writes = <<>>

\* main.py:64-66
ResolveInput ==
    /\ pc = "start"
    /\ \E picked \in PickerResults :
         LET p == IF args.input # NoPath THEN ExpandPath(args.input) ELSE picked
         IN  /\ src_path' = p
             /\ IF p = NoPath \/ ~exists(p)
                THEN /\ pc' = "aborted"
                     /\ exit' = SysExit("NoInput")
                     /\ trace' = trace \o <<"resolve_input", "exit">>
                ELSE /\ pc' = Successor(pc)
                     /\ exit' = exit
                     /\ trace' = Append(trace, "resolve_input")
    /\ UNCHANGED <<args, cuda_available, device, media_for_whisper,
                   tmp_to_cleanup, tmpdir, engine_input, result, outdir,
                   out_txt, files, dirs, writes>>

\* main.py:69-73
ImportWhisper ==
    /\ pc = "import"
    /\ \E installed \in BOOLEAN :
         IF installed
         THEN /\ pc' = Successor(pc)
              /\ exit' = exit
              /\ trace' = Append(trace, "import")
         ELSE /\ pc' = "aborted"
              /\ exit' = SysExit("NoWhisper")
              /\ trace' = trace \o <<"import", "exit">>
    /\ UNCHANGED <<args, cuda_available, src_path, device, media_for_whisper,
                   tmp_to_cleanup, tmpdir, engine_input, result, outdir,
                   out_txt, files, dirs, writes>>

\* main.py:76
SelectDevice ==
    /\ pc = "device"
    /\ device' = ChooseDevice(args.device, cuda_available)
    /\ pc' = Successor(pc)
    /\ trace' = Append(trace, "device")
    /\ UNCHANGED <<args, cuda_available, src_path, media_for_whisper,
                   tmp_to_cleanup, tmpdir, engine_input, result, outdir,
                   out_txt, files, dirs, exit, writes>>

\* main.py:81-89
PrepareInput ==
    /\ pc = "prepare"
    /\ IF TrackSupplied(args.audio_track)
       THEN \E ffmpeg_found \in BOOLEAN, ffmpeg_status \in {0, 1} :
              LET r == extract_track_to_wav(src_path, args.audio_track.index,
                                            ffmpeg_found, ffmpeg_status)
              IN  /\ tmpdir' = r.tmpdir
                  /\ dirs' = IF r.tmpdir # NoDir THEN dirs \cup {r.tmpdir} ELSE dirs
                  /\ files' = IF r.wav
                              THEN OpenWrite(files, StagedWav(r.tmpdir), <<"pcm">>)
                              ELSE files
                  /\ IF r.outcome = "return"
                     THEN /\ media_for_whisper' = StagedWav(r.tmpdir)
                          /\ tmp_to_cleanup' = r.tmpdir
                          /\ pc' = Successor(pc)
                          /\ exit' = exit
                          /\ trace' = trace \o r.events
                     ELSE /\ UNCHANGED <<media_for_whisper, tmp_to_cleanup>>
                          /\ pc' = "aborted"
                          /\ exit' = IF r.outcome = "SystemExit"
                                     THEN SysExit("NoFFmpeg")
                                     ELSE SysExit("FFmpegFailed")
                          /\ trace' = trace \o r.events \o <<"exit">>
       ELSE /\ media_for_whisper' = src_path
            /\ pc' = Successor(pc)
            /\ UNCHANGED <<tmp_to_cleanup, tmpdir, files, dirs, exit, trace>>
    /\ UNCHANGED <<args, cuda_available, src_path, device, engine_input,
                   result, outdir, out_txt, writes>>

\* main.py:92
LoadModel ==
    /\ pc = "load"
    /\ \E ok \in BOOLEAN :
         IF ok
         THEN /\ pc' = Successor(pc)
              /\ exit' = exit
              /\ trace' = Append(trace, "load_model")
         ELSE /\ pc' = "aborted"
              /\ exit' = Uncaught("LoadModel")
              /\ trace' = trace \o <<"load_model", "exit">>
    /\ UNCHANGED <<args, cuda_available, src_path, device, media_for_whisper,
                   tmp_to_cleanup, tmpdir, engine_input, result, outdir,
                   out_txt, files, dirs, writes>>

\* main.py:95-100
Transcribe ==
    /\ pc = "transcribe"
    /\ engine_input' = media_for_whisper
    /\ \E ok \in BOOLEAN, r \in Results :
         IF ok
         THEN /\ result' = r
              /\ pc' = Successor(pc)
              /\ exit' = exit
              /\ trace' = Append(trace, "transcribe")
         ELSE /\ result' = result
              /\ pc' = "aborted"
              /\ exit' = Uncaught("Transcribe")
              /\ trace' = trace \o <<"transcribe", "exit">>
    /\ UNCHANGED <<args, cuda_available, src_path, device, media_for_whisper,
                   tmp_to_cleanup, tmpdir, outdir, out_txt, files, dirs, writes>>

\* main.py:103-105
DetermineOutputPath ==
    /\ pc = "outpath"
    /\ outdir' = OutputDir(src_path, args.outdir)
    /\ \E ok \in BOOLEAN :
         IF ok
         THEN /\ dirs' = Mkdir(dirs, outdir')
              /\ out_txt' = OutputFile(src_path, media_for_whisper, outdir')
              /\ pc' = Successor(pc)
              /\ exit' = exit
              /\ trace' = Append(trace, "mkdir")
         ELSE /\ UNCHANGED <<dirs, out_txt>>
              /\ pc' = "aborted"
              /\ exit' = Uncaught("Mkdir")
              /\ trace' = trace \o <<"mkdir", "exit">>
    /\ UNCHANGED <<args, cuda_available, src_path, device, media_for_whisper,
                   tmp_to_cleanup, tmpdir, engine_input, result, files, writes>>

PriorData(fs, p) == IF p \in DOMAIN fs THEN fs[p] ELSE <<>>

\* main.py:108-110
SaveTranscript ==
    /\ pc = "save"
    /\ \E outcome \in {"ok", "open_fails", "write_fails"} :
         CASE outcome = "ok" ->
                /\ files' = OpenWrite(files, out_txt, TranscriptData(result))
                /\ writes' = Append(writes,
                                    [path |-> out_txt,
                                     prior |-> PriorData(files, out_txt),
                                     data |-> files'[out_txt]])
                /\ pc' = Successor(pc)
                /\ exit' = exit
                /\ trace' = Append(trace, "write")
           [] outcome = "open_fails" ->
                /\ UNCHANGED <<files, writes>>
                /\ pc' = "aborted"
                /\ exit' = Uncaught("Open")
                /\ trace' = trace \o <<"open", "exit">>
           [] outcome = "write_fails" ->
                /\ files' = OpenWrite(files, out_txt, <<>>)
                /\ writes' = writes
                /\ pc' = "aborted"
                /\ exit' = Uncaught("Write")
                /\ trace' = trace \o <<"open", "exit">>
    /\ UNCHANGED <<args, cuda_available, src_path, device, media_for_whisper,
                   tmp_to_cleanup, tmpdir, engine_input, result, outdir,
                   out_txt, dirs>>

\* main.py:112
Report ==
    /\ pc = "report"
    /\ pc' = Successor(pc)
    /\ exit' = Leave(pc', exit)
    /\ trace' = Append(trace, "report")
    /\ UNCHANGED <<args, cuda_available, src_path, device, media_for_whisper,
                   tmp_to_cleanup, tmpdir, engine_input, result, outdir,
                   out_txt, files, dirs, writes>>

\* main.py:115-119
Cleanup ==
    /\ pc = "cleanup"
    /\ IF tmp_to_cleanup # NoDir /\ tmp_to_cleanup \in dirs
       THEN \E ok \in BOOLEAN :
              /\ trace' = Append(trace, "rmtree")
              /\ IF ok
                 THEN /\ dirs' = dirs \ {tmp_to_cleanup}
                      /\ files' = RmtreeFiles(files, tmp_to_cleanup)
                 ELSE UNCHANGED <<dirs, files>>
       ELSE UNCHANGED <<trace, dirs, files>>
    /\ pc' = Successor(pc)
    /\ exit' = Leave(pc', exit)
    /\ UNCHANGED <<args, cuda_available, src_path, device, media_for_whisper,
                   tmp_to_cleanup, tmpdir, engine_input, result, outdir,
                   out_txt, writes>>

Next ==
    \/ ResolveInput
    \/ ImportWhisper
    \/ SelectDevice
    \/ PrepareInput
    \/ LoadModel
    \/ Transcribe
    \/ DetermineOutputPath
    \/ SaveTranscript
    \/ Report
    \/ Cleanup

Spec == Init /\ [][Next]_vars

-----------------------------------------------------------------------------
(* The transcript writer on its own: main.py:102-110 run again and again    *)
(* over the same result and source, as repeated runs of the program do.     *)

InitWriter ==
    /\ src_path \in MediaFiles
    /\ args = [input |-> src_path, audio_track |-> NoTrack,
               outdir |-> NoOutdir, device |-> <<>>]
    /\ cuda_available = FALSE
    /\ pc = "outpath"
    /\ device = "cpu"
    /\ media_for_whisper = src_path
    /\ tmp_to_cleanup = NoDir
    /\ tmpdir = NoDir
    /\ engine_input = src_path
    /\ result \in Results
    /\ outdir = NoDir
    /\ out_txt = NoPath
    /\ files \in {<<>>}
                 \cup [CandidateOutputs(src_path) -> {OldData, OldTranscript}]
    /\ dirs = InitialDirs(files)
    /\ exit = Running
    /\ trace = <<>>
    /\ writes = <<>>

\* main.py:103-110, then the next run arrives at line 103 again
WriteTranscript ==
    /\ pc = "outpath"
    /\ Len(writes) < MaxWrites
    /\ \E o \in OutdirArgs :
         /\ args' = [args EXCEPT !.outdir = o]
         /\ outdir' = OutputDir(src_path, o)
    /\ dirs' = Mkdir(dirs, outdir')
    /\ out_txt' = OutputFile(src_path, media_for_whisper, outdir')
    /\ files' = OpenWrite(files, out_txt', TranscriptData(result))
    /\ writes' = Append(writes,
                        [path |-> out_txt',
                         prior |-> PriorData(files, out_txt'),
                         data |-> files'[out_txt']])
    /\ trace' = trace \o <<"mkdir", "write">>
    /\ UNCHANGED <<cuda_available, pc, src_path, device, media_for_whisper,
                   tmp_to_cleanup, tmpdir, engine_input, result, exit>>

NextWriter == WriteTranscript

SpecWriter == InitWriter /\ [][NextWriter]_vars

-----------------------------------------------------------------------------
(* Vocabulary of the properties *)

Occurs(e) == \E i \in 1..Len(trace) : trace[i] = e

\* some e1 happens, and every e2 comes after the first e1
Before(e1, e2) ==
    /\ Occurs(e1)
    /\ Occurs(e2)
    /\ \A i, j \in 1..Len(trace) : trace[i] = e1 /\ trace[j] = e2 => i < j

Aborted == pc = "aborted"
Track == args.audio_track.given

AllWhitespace(s) == \A i \in 1..Len(s) : s[i] \in Whitespace

\* body is text without its leading and trailing whitespace
IsTrimOf(body, text) ==
    /\ body # <<>> => body[1] \notin Whitespace /\ body[Len(body)] \notin Whitespace
    /\ \E i \in 0..Len(text), j \in 0..Len(text) :
         /\ i + Len(body) + j = Len(text)
         /\ AllWhitespace(SubSeq(text, 1, i))
         /\ SubSeq(text, i + 1, i + Len(body)) = body
         /\ AllWhitespace(SubSeq(text, i + Len(body) + 1, Len(text)))

\* base is name without its extension: the last ".xxx" of a name that has
\* something before that dot and something after it
IsStemOf(base, name) ==
    \E k \in 0..Len(name) :
      LET ext == SubSeq(name, k + 1, Len(name))
      IN  /\ base = SubSeq(name, 1, k)
          /\ \/ /\ ext = <<>>
                /\ \A i \in 2..(Len(name) - 1) : name[i] # "."
             \/ /\ k >= 1
                /\ Len(ext) >= 2
                /\ ext[1] = "."
                /\ \A i \in 2..Len(ext) : ext[i] # "."

\* actual is the directory typed as given, "~" standing for the home directory
IsDirNamed(given, actual) ==
    /\ Len(actual) = Len(given)
    /\ \A i \in 1..Len(given) :
         actual[i] = IF i = 1 /\ given[i] = "~" THEN "home" ELSE given[i]

FileWork == {"mkdtemp", "ffmpeg", "mkdir", "open", "write", "rmtree"}

UntouchedFiles ==
    \A p \in DOMAIN files : p \in AllCandidateOutputs /\ files[p] = OldData

-----------------------------------------------------------------------------
(* Properties *)

\* C1: when extraction succeeded and a later step aborts the run, the staged
\* directory does not exist once the process has terminated.
C1_StagedDirGoneAfterAbort ==
    (Aborted /\ tmp_to_cleanup # NoDir) => tmp_to_cleanup \notin dirs

\* C2: when FFmpeg exits non-zero during extraction the run ends with a
\* non-zero status, no transcript is written, and the temporary directory
\* made for the extraction no longer exists.
C2_FailedExtractionLeavesNothing ==
    (Aborted /\ exit.reason = "FFmpegFailed") =>
        /\ exit.status # 0
        /\ writes = <<>>
        /\ UntouchedFiles
        /\ tmpdir \notin dirs

\* C3: every failure ends the run through a handled abort: a one-line
\* message and a non-zero status, never an uncaught exception's traceback.
C3_EveryAbortIsHandled ==
    Aborted => exit.kind = "message" /\ exit.status # 0

\* C4 as claimed: the output path is reported only after the staged
\* directory has been released.
C4_ReportAfterCleanup ==
    (Occurs("report") /\ tmp_to_cleanup # NoDir) => Before("rmtree", "report")

\* C4 as amended: a successful run resolves the input, extracts only when a
\* track was supplied, transcribes, writes the transcript, reports the output
\* path and only then releases the staged directory.
C4_ReportThenCleanup ==
    /\ Occurs("rmtree") => Before("report", "rmtree")
    /\ pc = "done" =>
         /\ exit.status = 0
         /\ Before("resolve_input", "load_model")
         /\ Before("load_model", "transcribe")
         /\ Before("transcribe", "write")
         /\ Before("write", "report")
         /\ Track => /\ Before("resolve_input", "ffmpeg")
                     /\ Before("ffmpeg", "load_model")
                     /\ Before("report", "rmtree")
         /\ ~Track => ~Occurs("ffmpeg") /\ ~Occurs("rmtree")

C4_Witness == pc = "done" /\ Track /\ Occurs("rmtree") /\ tmp_to_cleanup \notin dirs

\* C5: a missing Whisper package, or a missing FFmpeg when a track was
\* supplied, aborts the run before any temporary directory is made, before
\* FFmpeg is invoked, before any output directory is made and before any
\* transcript is written; file work never precedes the dependency checks.
C5_MissingDependencyBeforeFileWork ==
    /\ (Aborted /\ exit.reason \in {"NoWhisper", "NoFFmpeg"}) =>
         /\ \A i \in 1..Len(trace) : trace[i] \notin FileWork
         /\ tmpdir = NoDir
         /\ dirs = InitialDirs(files)
         /\ UntouchedFiles
         /\ writes = <<>>
    /\ \A i \in 1..Len(trace) :
         /\ trace[i] \in FileWork =>
              \E j \in 1..(i - 1) : trace[j] = "import"
         /\ trace[i] \in {"mkdtemp", "ffmpeg"} =>
              \E j \in 1..(i - 1) : trace[j] = "which"

C5_Witness ==
    Aborted /\ exit.reason = "NoFFmpeg" /\ Track /\ Occurs("import")

\* C6: the transcript file holds the result text without its leading and
\* trailing whitespace, followed by exactly one newline when that is not
\* empty, and holds nothing when it is empty (text absent or all whitespace).
C6_TrimmedTextOneNewline ==
    Occurs("write") =>
        LET data == files[out_txt]
            text == IF result.has_text THEN result.text ELSE <<>>
        IN  /\ AllWhitespace(text) => data = <<>>
            /\ ~AllWhitespace(text) =>
                 /\ data # <<>>
                 /\ data[Len(data)] = "\n"
                 /\ IsTrimOf(SubSeq(data, 1, Len(data) - 1), text)
                 /\ SubSeq(data, 1, Len(data) - 1) # <<>>
            /\ ~(Len(data) >= 2 /\ data[Len(data)] = "\n"
                                /\ data[Len(data) - 1] = "\n")

C6_Witness ==
    /\ Occurs("write")
    /\ result.has_text
    /\ result.text = <<" ", "a", "\n">>
    /\ files[out_txt] = <<"a", "\n">>

\* C7: the transcript is written to {outdir}/{stem}_transcript.txt, outdir
\* being --outdir when one is given and the source's parent otherwise, stem
\* the source's file name without extension, also when a track was extracted.
C7_OutputPathFromSource ==
    Occurs("mkdir") /\ ~Aborted =>
        /\ Len(out_txt.name) >= 1
        /\ out_txt.name[Len(out_txt.name)] = "_transcript.txt"
        /\ IsStemOf(SubSeq(out_txt.name, 1, Len(out_txt.name) - 1), src_path.name)
        /\ IF args.outdir.given /\ args.outdir.dir # <<>>
           THEN IsDirNamed(args.outdir.dir, out_txt.dir)
           ELSE out_txt.dir = src_path.dir
        /\ out_txt.dir \in dirs
        /\ Occurs("write") => out_txt \in DOMAIN files /\ writes[1].path = out_txt
        /\ tmp_to_cleanup # NoDir => out_txt.dir # tmp_to_cleanup

C7_Witness ==
    /\ Occurs("write")
    /\ tmp_to_cleanup # NoDir
    /\ ~args.outdir.given
    /\ src_path = TarGz
    /\ out_txt = [dir |-> <<"home">>, name |-> <<"a", ".", "b", "_transcript.txt">>]

\* C8: the device is the --device override whenever one is present, whatever
\* the accelerator probe says; without an override it is "cuda" when the
\* probe reports an accelerator and "cpu" otherwise.
C8_DeviceResolution ==
    Occurs("device") =>
        /\ (args.device # <<>> /\ args.device # <<"">>) => device = args.device[1]
        /\ (args.device \in {<<>>, <<"">>} /\ cuda_available) => device = "cuda"
        /\ (args.device \in {<<>>, <<"">>} /\ ~cuda_available) => device = "cpu"

C8_Witness ==
    Occurs("device") /\ args.device = <<"cpu">> /\ cuda_available /\ device = "cpu"

\* C9: every write of the transcript for one result leaves the same bytes,
\* whatever the file held before and however often it is written.
C9_WriteIdempotent ==
    \A i \in 1..Len(writes) :
        /\ writes[i].data = writes[1].data
        /\ files[writes[i].path] = writes[1].data

C9_Witness ==
    /\ Len(writes) = 2
    /\ writes[1].path = writes[2].path
    /\ writes[1].prior = OldData
    /\ writes[2].prior = writes[1].data
    /\ writes[1].data # <<>>

\* C10: FFmpeg runs and a temporary directory is made only when a track was
\* supplied; the engine is reached with the staged file exactly when a track
\* was supplied (0 included) and with the source otherwise, and is never
\* reached after a failed extraction.
C10_ExtractionIffTrack ==
    /\ (Occurs("mkdtemp") \/ Occurs("ffmpeg") \/ tmpdir # NoDir) => Track
    /\ Occurs("load_model") =>
         /\ Track <=> (Occurs("mkdtemp") /\ Occurs("ffmpeg"))
         /\ Track <=> tmp_to_cleanup # NoDir
    /\ Occurs("transcribe") =>
         /\ Track => engine_input = StagedWav(tmpdir) /\ tmpdir # NoDir
         /\ ~Track => engine_input = src_path
    /\ exit.reason = "FFmpegFailed" =>
         /\ ~Occurs("load_model")
         /\ ~Occurs("transcribe")
         /\ engine_input = NoPath

C10_Witness ==
    /\ Occurs("transcribe")
    /\ Track
    /\ args.audio_track.index = 0
    /\ engine_input = StagedWav(TmpDirName)

====
